---- MODULE Spec2Model ----
(***************************************************************************)
(* Model of the claude-shell MCP server (server.ts, claude-cli.ts,         *)
(* tools.ts): the JSON-RPC dispatcher, the fire-and-forget tool calls with *)
(* their retry loops, and the promise-chained output queue.                *)
(*                                                                         *)
(* Strings are modelled as sequences of tokens (a template literal is the  *)
(* concatenation of its pieces); JavaScript's undefined and null are the   *)
(* one-token values Undef and Null.                                        *)
(***************************************************************************)
EXTENDS Integers, Sequences, FiniteSets, TLC

(* ---------------------------- bounds ----------------------------------- *)

\* number of input lines the client sends
MaxLines == 3
\* largest maxRetries value a request passes explicitly
MaxRetriesArg == 2

(* ---------------------------- values ----------------------------------- *)

Undef == <<"undefined">>
Null == <<"null">>
Num(n) == <<"num", n>>

\* tools.ts TOOLS / VALID_TOOL_NAMES
PlainTools == {"claude_generate", "claude_edit", "claude_refactor"}
JsonTools == {"claude_generate_json", "claude_edit_json"}
TOOLS == PlainTools \cup JsonTools
VALID_TOOL_NAMES == TOOLS

DefaultMaxRetries == 3
TimeoutBackoffMs == 5000
FailureBackoffMs == 2000

(* ---------------------------- input lines ------------------------------ *)

\* A line of standard input.  kind: what JSON.parse makes of it.
\*   "blank"   only whitespace
\*   "badjson" JSON.parse throws
\*   "null"    the JSON text null
\*   "scalar"  a JSON number, string, boolean (no id, method, params)
\*   "object"  a JSON object with the fields below
NoCall == [hasParams |-> FALSE, name |-> "undefined", hasArgs |-> FALSE,
           prompt |-> Undef, maxRetries |-> Undef]

RawLine(k) == [kind |-> k, id |-> Undef, method |-> "undefined"] @@ NoCall

Object(id, method) == [kind |-> "object", id |-> id, method |-> method] @@ NoCall

\* params of a tools/call: {name, arguments: {prompt, maxRetries}}
Params(name, hasArgs, prompt, maxRetries) ==
    [hasParams |-> TRUE, name |-> name, hasArgs |-> hasArgs,
     prompt |-> prompt, maxRetries |-> maxRetries]

ToolCall(id, params) == [kind |-> "object", id |-> id, method |-> "tools/call"] @@ params

\* The lines the client may send as its n-th line.  The client numbers its
\* requests (test-client.ts send: id = ++requestId); a notification carries
\* no id or a null one.
Malformed == {RawLine("blank"), RawLine("badjson"), RawLine("null"), RawLine("scalar")}

Requests(n) ==
    {Object(Num(n), m) : m \in {"initialize", "tools/list", "foo"}}

Notifications ==
    {Object(Undef, "initialized"), Object(Null, "initialize")}

\* tools/call lines that end before any subprocess is spawned
BadCalls(n) ==
    {ToolCall(Num(n), NoCall),
     ToolCall(Num(n), Params("nope", FALSE, Undef, Undef)),
     ToolCall(Num(n), Params("nope", TRUE, Undef, Undef)),
     ToolCall(Num(n), Params("claude_generate", TRUE, Undef, Undef))}

\* tools/call lines with a prompt and an explicit maxRetries
GoodCalls(n) ==
    {ToolCall(Num(n), Params("claude_generate", TRUE, <<"p">>, Num(r))) :
        r \in 0..MaxRetriesArg}
    \cup {ToolCall(Num(n), Params("claude_generate_json", TRUE, <<"p">>, Num(r))) :
        r \in 1..MaxRetriesArg}

InputLines(n) ==
    Malformed \cup Requests(n) \cup Notifications \cup BadCalls(n) \cup GoodCalls(n)

(* ---------------------------- output queue ----------------------------- *)

VARIABLES
    phase,        \* "running" | "exited" (process.exit(0)) | "crashed" (uncaught exception)
    lines,        \* the input lines received so far, in arrival order
    task,         \* task[n]: the handleToolCall invocation launched for line n
    outputQueue,  \* the promise chain of atomicOutput: one link per call, in call order
    stdout,       \* what the output stream has received, fragment by fragment
    run,          \* one invocation of a retry operation, with what it did so far
    proc,         \* one invocation of executeClaudeCli: its subprocess, timer and promise
    extracted     \* one application of extractResultText: its argument and its value

vars == <<phase, lines, task, outputQueue, stdout, run, proc, extracted>>

\* JSON.stringify(response): a key whose value is undefined is left out
JSONstringify(response) ==
    [id |-> response.id,
     keys |-> {"jsonrpc"}
              \cup (IF response.id # Undef THEN {"id"} ELSE {})
              \cup (IF response.result # Undef THEN {"result"} ELSE {})
              \cup (IF response.error # Undef THEN {"error"} ELSE {}),
     result |-> response.result,
     error |-> response.error]

\* a chain whose callbacks do not wait for the previous write
ChainedAfter_Unchained(q, k) == TRUE

\* outputQueue.then(...): the link's write may start once the previous link
\* (the promise outputQueue held when atomicOutput was called) has resolved
ChainedAfter(q, k) == IF k = 1 THEN TRUE ELSE q[k - 1].state = "resolved"

\* a link of the chain.  cause is the number of the input line on whose
\* account atomicOutput was called, seq the number of the call (bookkeeping).
Link(q, cause, data) ==
    [cause |-> cause, seq |-> Len(q) + 1, data |-> data, state |-> "pending"]

\* a chain that puts the newest link first
atomicOutput_Newest(q, cause, data) == <<Link(q, cause, data)>> \o q

\* atomicOutput(data): outputQueue = outputQueue.then(...) appends one link
atomicOutput(q, cause, data) == Append(q, Link(q, cause, data))

sendResponse(q, cause, response) == atomicOutput(q, cause, JSONstringify(response))

sendError(q, cause, id, code, message, data) ==
    sendResponse(q, cause,
        [id |-> id, result |-> Undef,
         error |-> <<code, message, data>>])

sendResult(q, cause, id, result) ==
    sendResponse(q, cause, [id |-> id, result |-> result, error |-> Undef])

handleInitialize(q, cause, id) ==
    sendResult(q, cause, id, <<"protocolVersion", "capabilities", "serverInfo">>)

handleToolsList(q, cause, id) == sendResult(q, cause, id, <<"tools">>)

\* The .then callbacks that are due run as microtasks, before the next event:
\* each pending link whose predecessor has resolved calls
\* process.stdout.write(data + '\n', cb), and its write is in progress.
Due(q) == {k \in 1..Len(q) : q[k].state = "pending" /\ ChainedAfter(q, k)}

StartWrites(q) ==
    [k \in 1..Len(q) |-> IF k \in Due(q) THEN [q[k] EXCEPT !.state = "writing"] ELSE q[k]]

\* What the stream receives of the write of link k: the bytes of data + '\n'
\* arrive between the call of write and its callback, here as two fragments,
\* the "head" at the call and the "tail" (up to the newline) by the callback.
Fragment(q, k, part) ==
    [seq |-> q[k].seq, part |-> part, cause |-> q[k].cause, data |-> q[k].data]

\* the stream receives the head of every write that starts
RECURSIVE Started(_, _)
Started(q, k) ==
    IF k > Len(q) THEN <<>>
    ELSE (IF k \in Due(q) THEN <<Fragment(q, k, "head")>> ELSE <<>>) \o Started(q, k + 1)

(* ---------------------------- subprocess outcomes ---------------------- *)

\* ClaudeExecutionResult
Result(success, output, exitCode) ==
    [success |-> success, output |-> output, exitCode |-> exitCode]

\* what the subprocess may print on its standard output when it exits 0
Stdouts == {<<"{", "\"result\":", "\"", "ok", "\"", "}">>, <<"text">>}

\* executeClaudeCli: the outcomes its close and error handlers resolve with
executeClaudeCli ==
    {Result(TRUE, out, 0) : out \in Stdouts}
    \cup {Result(FALSE, <<"Command timeout">>, 124),
          Result(FALSE, <<"stderr">>, 2)}

\* runWithRetry, after the loop: the synthesized failure
MaxRetriesReached(maxRetries) ==
    Result(FALSE, <<"Max retries reached after ", ToString(maxRetries), " attempts">>, 1)

\* a loop that takes only exit code 124 for a timeout
runWithRetryStep_Only124(attempt, maxRetries, result) ==
    IF result.success
    THEN [do |-> "return", result |-> result, ms |-> 0]
    ELSE IF result.exitCode = 124
    THEN IF attempt < maxRetries
         THEN [do |-> "sleep", result |-> result, ms |-> 5000]
         ELSE [do |-> "return", result |-> MaxRetriesReached(maxRetries), ms |-> 0]
    ELSE IF attempt < maxRetries
         THEN [do |-> "sleep", result |-> result, ms |-> 2000]
         ELSE [do |-> "return", result |-> result, ms |-> 0]

\* a loop that falls out of its last round after a failure as after a timeout
runWithRetryStep_FallsThrough(attempt, maxRetries, result) ==
    IF result.success
    THEN [do |-> "return", result |-> result, ms |-> 0]
    ELSE IF attempt < maxRetries
    THEN [do |-> "sleep", result |-> result,
          ms |-> IF result.exitCode = 124 \/ result.exitCode = 137 THEN 5000 ELSE 2000]
    ELSE [do |-> "return", result |-> MaxRetriesReached(maxRetries), ms |-> 0]

\* a loop that returns the outcome of its last attempt, timeout or not
runWithRetryStep_LastOutcome(attempt, maxRetries, result) ==
    IF result.success
    THEN [do |-> "return", result |-> result, ms |-> 0]
    ELSE IF attempt < maxRetries
    THEN [do |-> "sleep", result |-> result,
          ms |-> IF result.exitCode = 124 \/ result.exitCode = 137 THEN 5000 ELSE 2000]
    ELSE [do |-> "return", result |-> result, ms |-> 0]

\* a loop that goes on after a success while attempts remain
runWithRetryStep_KeepsGoing(attempt, maxRetries, result) ==
    IF attempt < maxRetries
    THEN [do |-> "sleep", result |-> result,
          ms |-> IF result.exitCode = 124 \/ result.exitCode = 137 THEN 5000 ELSE 2000]
    ELSE IF result.success \/ ~(result.exitCode = 124 \/ result.exitCode = 137)
    THEN [do |-> "return", result |-> result, ms |-> 0]
    ELSE [do |-> "return", result |-> MaxRetriesReached(maxRetries), ms |-> 0]

\* runWithRetry, the loop body after `await executeClaudeCli`: what the loop
\* does with the result of attempt number attempt.
\*   "return": the function returns result; "sleep": it awaits sleep(ms) and
\*   then runs the next attempt.
runWithRetryStep(attempt, maxRetries, result) ==
    IF result.success
    THEN [do |-> "return", result |-> result, ms |-> 0]
    ELSE IF result.exitCode = 124 \/ result.exitCode = 137
    THEN IF attempt < maxRetries
         THEN [do |-> "sleep", result |-> result, ms |-> TimeoutBackoffMs]
         ELSE [do |-> "return", result |-> MaxRetriesReached(maxRetries), ms |-> 0]
    ELSE IF attempt < maxRetries
         THEN [do |-> "sleep", result |-> result, ms |-> FailureBackoffMs]
         ELSE [do |-> "return", result |-> result, ms |-> 0]

(* ---------------------------- text helpers ----------------------------- *)

\* JSON.parse accepts s.  Tokens: "{" "}" the quote "\"", a key with its
\* colon ("\"result\":", "\"a\":"), the number "1"; any other token is text
\* that is JSON only inside a string literal.
IsJsonString(s) ==
    /\ Len(s) >= 2
    /\ s[1] = "\"" /\ s[Len(s)] = "\""
    /\ \A i \in 2..(Len(s) - 1) : s[i] # "\""

RECURSIVE IsJson(_)
IsJson(s) ==
    \/ s = <<"1">>
    \/ IsJsonString(s)
    \/ /\ Len(s) >= 2
       /\ s[1] = "{" /\ s[Len(s)] = "}"
       /\ \/ Len(s) = 2
          \/ /\ Len(s) >= 4
             /\ s[2] \in {"\"result\":", "\"a\":"}
             /\ IsJson(SubSeq(s, 3, Len(s) - 1))

\* extractResultText: parsed.result when it is a string and truthy
extractResultText(jsonOutput) ==
    IF /\ IsJson(jsonOutput)
       /\ Len(jsonOutput) >= 4
       /\ jsonOutput[1] = "{"
       /\ jsonOutput[2] = "\"result\":"
       /\ IsJsonString(SubSeq(jsonOutput, 3, Len(jsonOutput) - 1))
       /\ Len(jsonOutput) > 5
    THEN SubSeq(jsonOutput, 4, Len(jsonOutput) - 2)
    ELSE jsonOutput

\* text.indexOf(c), text.lastIndexOf(c): 0 when absent (positions from 1)
IndexOf(text, c) ==
    IF \E i \in 1..Len(text) : text[i] = c
    THEN CHOOSE i \in 1..Len(text) :
            text[i] = c /\ \A j \in 1..(i - 1) : text[j] # c
    ELSE 0

LastIndexOf(text, c) ==
    IF \E i \in 1..Len(text) : text[i] = c
    THEN CHOOSE i \in 1..Len(text) :
            text[i] = c /\ \A j \in (i + 1)..Len(text) : text[j] # c
    ELSE 0

\* an extraction that does not try to parse the candidate
extractJsonContent_NoParse(text) ==
    LET firstBrace == IndexOf(text, "{")
        lastBrace == LastIndexOf(text, "}")
    IN  IF firstBrace = 0 \/ lastBrace = 0 \/ firstBrace >= lastBrace
        THEN Null
        ELSE SubSeq(text, firstBrace, lastBrace)

\* extractJsonContent: first { to last }, if it parses; else null
extractJsonContent(text) ==
    LET firstBrace == IndexOf(text, "{")
        lastBrace == LastIndexOf(text, "}")
        jsonCandidate == SubSeq(text, firstBrace, lastBrace)
    IN  IF firstBrace = 0 \/ lastBrace = 0 \/ firstBrace >= lastBrace
        THEN Null
        ELSE IF IsJson(jsonCandidate) THEN jsonCandidate ELSE Null

\* errors.join('\n')
RECURSIVE Join(_)
Join(errors) ==
    IF errors = <<>> THEN <<>>
    ELSE IF Len(errors) = 1 THEN errors[1]
    ELSE errors[1] \o <<"\n">> \o Join(Tail(errors))

\* runJsonWithRetry, after the loop: the failure with the error report
JsonRetriesReached(maxRetries, errors) ==
    Result(FALSE,
           <<"{\"error\":\"Max retries reached\",\"attempts\":", ToString(maxRetries),
             ",\"errors\":\"">> \o Join(errors) \o <<"\"}">>,
           1)

\* runJsonWithRetry, the loop body after `await runWithRetry(prompt, jsonOptions)`
\* returned result.
\*   "return": the function returns result; "sleep": it awaits sleep(ms), then
\*   the loop goes on; "continue": the loop goes on at once.  When the loop
\*   goes on past the last attempt the function returns the error report.
runJsonWithRetryLoop(attempt, maxRetries, errors, result) ==
    LET tag == <<"[", ToString(attempt), "] ">>
        failed == Append(errors, tag \o <<"AI execution failed: ">> \o result.output)
        resultText == extractResultText(result.output)
        first == extractJsonContent(resultText)
        jsonContent == IF first = Null THEN extractJsonContent(result.output) ELSE first
        invalid == Append(errors, tag \o <<"JSON parsing failed">>)
    IN  IF ~result.success
        THEN IF attempt < maxRetries
             THEN [do |-> "continue", result |-> result, ms |-> 0, errors |-> failed]
             ELSE [do |-> "return", result |-> JsonRetriesReached(maxRetries, failed),
                   ms |-> 0, errors |-> failed]
        ELSE IF jsonContent # Null
        THEN [do |-> "return", result |-> Result(TRUE, jsonContent, 0),
              ms |-> 0, errors |-> errors]
        ELSE IF attempt < maxRetries
        THEN [do |-> "sleep", result |-> result, ms |-> FailureBackoffMs, errors |-> invalid]
        ELSE [do |-> "return", result |-> JsonRetriesReached(maxRetries, invalid),
              ms |-> 0, errors |-> invalid]

\* the loop body for an inner call that ran its one attempt and got executed
runJsonWithRetryStep(attempt, maxRetries, errors, executed) ==
    runJsonWithRetryLoop(attempt, maxRetries, errors,
                         runWithRetryStep(1, 1, executed).result)

(* ---------------------------- tool calls ------------------------------- *)

NoResult == Result(FALSE, <<>>, 0)

\* task.pc:
\*   "none"     no handleToolCall was launched for the line
\*   "rejected" handleToolCall threw outside its try block: its promise is
\*              rejected and the .catch of processRequest only logs
\*   "settled"  awaiting a promise that is already settled (threw: rejected
\*              with a TypeError, else fulfilled with result); the
\*              continuation runs as a microtask
\*   "running"  awaiting executeClaudeCli: the subprocess of attempt is alive
\*   "sleeping" awaiting sleep(ms) after attempt
\*   "done"     handleToolCall returned (its locals are gone)
\*   "abandoned" the process exited while tool calls were in flight
NoTask ==
    [pc |-> "none", tool |-> "undefined", maxRetries |-> 0, attempt |-> 0,
     errors |-> <<>>, ms |-> 0, threw |-> FALSE, result |-> NoResult]

Done == [NoTask EXCEPT !.pc = "done"]

\* what is left of the tool calls in flight when the process exits: that
\* there were some
Abandoned == [NoTask EXCEPT !.pc = "abandoned"]

\* parseToolArguments: args.maxRetries ?? 3
parseToolArguments(args) ==
    [maxRetries |-> IF args.maxRetries = Undef THEN DefaultMaxRetries
                    ELSE args.maxRetries[2]]

\* the sends that end handleToolCall once the retry operation has settled
Respond(q, cause, id, t) ==
    IF t.threw
    THEN sendError(q, cause, id, -32603, <<"Internal error">>, t.result.output)
    ELSE IF t.tool \in PlainTools
    THEN IF ~t.result.success
         THEN sendError(q, cause, id, -32603, <<"Claude CLI error">>, t.result.output)
         ELSE sendResult(q, cause, id,
                         <<"content", "text">> \o extractResultText(t.result.output))
    ELSE IF ~t.result.success
         THEN sendError(q, cause, id, -32603, <<"JSON validation error">>, t.result.output)
         ELSE sendResult(q, cause, id, <<"content", "text">> \o t.result.output)

\* executeClaudeCli up to its return: prompt.substring throws for an
\* undefined prompt before spawn is reached; else the subprocess is spawned
Execute(t, prompt, attempt) ==
    IF prompt = Undef
    THEN [t EXCEPT !.pc = "settled", !.threw = TRUE, !.attempt = attempt,
                   !.result = Result(FALSE, <<"TypeError">>, 1)]
    ELSE [t EXCEPT !.pc = "running", !.attempt = attempt]

\* an unknown tool answered only after an await
UnknownTool_Deferred(q, cause, id, toolName) ==
    [queue |-> q,
     task |-> [NoTask EXCEPT !.pc = "settled", !.threw = TRUE,
                             !.result = Result(FALSE, <<"Unknown tool: ", toolName>>, 1)]]

\* handleToolCall, the validation of the tool name failed
UnknownTool(q, cause, id, toolName) ==
    [queue |-> sendError(q, cause, id, -32601, <<"Unknown tool: ", toolName>>, Undef),
     task |-> Done]

\* handleToolCall up to its first suspension: the new queue and the task
handleToolCall(q, cause, id, params) ==
    IF ~params.hasParams \/ ~params.hasArgs
    THEN [queue |-> q, task |-> [NoTask EXCEPT !.pc = "rejected"]]
    ELSE IF params.name \notin VALID_TOOL_NAMES
    THEN UnknownTool(q, cause, id, params.name)
    ELSE LET options == parseToolArguments(params)
             t == [NoTask EXCEPT !.tool = params.name,
                                 !.maxRetries = options.maxRetries]
         IN  [queue |-> q,
              task |->
                IF 1 <= options.maxRetries
                THEN Execute(t, params.prompt, 1)
                ELSE [t EXCEPT !.pc = "settled",
                        !.result = IF params.name \in PlainTools
                                   THEN MaxRetriesReached(options.maxRetries)
                                   ELSE JsonRetriesReached(options.maxRetries, <<>>)]]

\* a parse error reported under the wrong code
ParseError_InvalidRequest(q, cause) ==
    sendError(q, cause, Null, -32600, <<"Parse error">>, Undef)

\* processRequest, the catch of JSON.parse
ParseError(q, cause) == sendError(q, cause, Null, -32700, <<"Parse error">>, Undef)

\* an unsupported method reported without its name
UnsupportedMethod_Unnamed(q, cause, id, method) ==
    sendError(q, cause, id, -32601, <<"Method not found">>, Undef)

\* processRequest, the default case of the switch
UnsupportedMethod(q, cause, id, method) ==
    sendError(q, cause, id, -32601, <<"Method not found: ", method>>, Undef)

\* processRequest(line): the new queue, the task launched, and whether an
\* exception escaped the 'line' listener
processRequest(q, cause, line) ==
    LET same == [queue |-> q, task |-> NoTask, uncaught |-> FALSE]
    IN  CASE line.kind = "blank" -> same
          [] line.kind = "badjson" ->
                [same EXCEPT !.queue = ParseError(q, cause)]
          [] line.kind = "null" -> [same EXCEPT !.uncaught = TRUE]
          [] OTHER ->
                CASE line.method = "initialize" ->
                        [same EXCEPT !.queue = handleInitialize(q, cause, line.id)]
                  [] line.method = "initialized" -> same
                  [] line.method = "tools/list" ->
                        [same EXCEPT !.queue = handleToolsList(q, cause, line.id)]
                  [] line.method = "tools/call" ->
                        handleToolCall(q, cause, line.id, line) @@ same
                  [] OTHER ->
                        [same EXCEPT !.queue =
                            UnsupportedMethod(q, cause, line.id, line.method)]

(* ---------------------------- retry operations ------------------------- *)

\* largest maxRetries in the options a caller passes to a retry operation
MaxRetriesOpt == 3

\* ClaudeCliOptions, the fields the retry operations read
Options == [maxRetries : 0..MaxRetriesOpt, outputFormat : {"text", "json", ""}]

NoOptions == [maxRetries |-> 0, outputFormat |-> ""]

\* buildClaudeArgs: args.push('--output-format', options.outputFormat || 'json')
buildClaudeArgs(options) ==
    <<"--output-format", IF options.outputFormat = "" THEN "json" ELSE options.outputFormat>>

\* options handed to the inner call unchanged
jsonOptions_AsGiven(options) == options

\* runJsonWithRetry: { ...options, outputFormat: 'json', maxRetries: 1 }
jsonOptions(options) == [options EXCEPT !.outputFormat = "json", !.maxRetries = 1]

\* executeClaudeCli, the 'close' handler: code is Null when a signal ended
\* the subprocess
OnClose(killed, code, output, errorOutput) ==
    IF killed
    THEN Result(FALSE, <<"Command timeout">>, 124)
    ELSE IF code = Num(0)
    THEN Result(TRUE, output, 0)
    ELSE Result(FALSE,
                IF errorOutput # <<>> THEN errorOutput
                ELSE IF output # <<>> THEN output
                ELSE <<"Exit code: ", IF code = Null THEN "null" ELSE ToString(code[2])>>,
                IF code = Null THEN 1 ELSE code[2])

\* executeClaudeCli, the 'error' handler
OnError(message) == Result(FALSE, <<"Spawn error: ", message>>, 1)

\* what a subprocess that exits 0 may have printed
Printed ==
    {<<"{", "\"result\":", "\"", "ok", "\"", "}">>,
     <<"{", "\"result\":", "\"", "x", "{", "}", "y", "\"", "}">>,
     <<"prefix", "{", "\"a\":", "1", "}", "suffix">>,
     <<"text">>,
     <<"{", "text", "}">>}

\* the ways one subprocess execution may end, as the handlers see them
Executions ==
    {OnClose(FALSE, Num(0), out, <<>>) : out \in Printed}
    \cup {OnClose(TRUE, Null, <<>>, <<>>),
          OnClose(FALSE, Num(137), <<>>, <<"stderr">>),
          OnClose(FALSE, Num(2), <<"text">>, <<"stderr">>),
          OnClose(FALSE, Num(2), <<"text">>, <<>>),
          OnClose(FALSE, Null, <<>>, <<>>),
          OnError("ENOENT")}

\* what an invocation did, in order: a subprocess execution begun ("spawn",
\* with the loop counters and the arguments), its end ("exit", with the
\* outcome), a sleep begun ("wait", with its length)
Event(type, attempt, inner, args, outcome, ms) ==
    [type |-> type, attempt |-> attempt, inner |-> inner, args |-> args,
     outcome |-> outcome, ms |-> ms]

Begun(r, inner, args) ==
    Append(r.events, Event("spawn", r.attempt, inner, args, NoResult, 0))
Ended(r, outcome) ==
    Append(r.events, Event("exit", r.attempt, r.inner, <<>>, outcome, 0))
Waiting(events, r, ms) ==
    Append(events, Event("wait", r.attempt, r.inner, <<>>, NoResult, ms))

\* run.fn: the operation invoked; run.pc:
\*   "idle"     not invoked yet
\*   "running"  awaiting executeClaudeCli
\*   "sleeping" awaiting sleep(ms)
\*   "returned" the operation returned run.result
\* run.attempt is the loop counter of the operation invoked, run.inner the
\* loop counter of the runWithRetry that runJsonWithRetry called (0: none)
NoRun ==
    [fn |-> "none", options |-> NoOptions, pc |-> "idle", attempt |-> 0, inner |-> 0,
     errors |-> <<>>, events |-> <<>>, result |-> NoResult]

Returned(r, result) == [r EXCEPT !.pc = "returned", !.result = result, !.inner = 0]

\* runWithRetry at the head of its loop with counter attempt
runWithRetry(r, attempt) ==
    IF attempt <= r.options.maxRetries
    THEN LET a == [r EXCEPT !.attempt = attempt]
         IN  [a EXCEPT !.pc = "running",
                       !.events = Begun(a, 0, buildClaudeArgs(r.options))]
    ELSE Returned(r, MaxRetriesReached(r.options.maxRetries))

\* runJsonWithRetry at the head of its loop with counter attempt (the inner
\* runWithRetry at the head of its own loop with counter inner), and the loop
\* body once the inner call returned result
RECURSIVE runJsonWithRetry(_, _), runInner(_, _), afterInner(_, _)
afterInner(r, result) ==
    LET step == runJsonWithRetryLoop(r.attempt, r.options.maxRetries, r.errors, result)
        u == [r EXCEPT !.errors = step.errors, !.inner = 0]
    IN  CASE step.do = "return" -> Returned(u, step.result)
          [] step.do = "sleep" ->
                [u EXCEPT !.pc = "sleeping", !.events = Waiting(u.events, u, step.ms)]
          [] OTHER -> runJsonWithRetry(u, r.attempt + 1)

runInner(r, inner) ==
    LET o == jsonOptions(r.options)
    IN  IF inner <= o.maxRetries
        THEN [r EXCEPT !.pc = "running", !.inner = inner,
                       !.events = Begun(r, inner, buildClaudeArgs(o))]
        ELSE afterInner(r, MaxRetriesReached(o.maxRetries))

runJsonWithRetry(r, attempt) ==
    IF attempt <= r.options.maxRetries
    THEN runInner([r EXCEPT !.attempt = attempt], 1)
    ELSE Returned(r, JsonRetriesReached(r.options.maxRetries, r.errors))

(* ---------------------------- the subprocess runner -------------------- *)

\* proc.state:
\*   "none"      executeClaudeCli was not called yet
\*   "alive"     the subprocess was spawned and runs
\*   "exited"    the subprocess has ended with proc.code (Null: ended by a
\*               signal); its output streams are not closed yet
\*   "unstarted" spawn could not start the subprocess; 'error' is to be emitted
\*   "errored"   'error' was emitted; 'close' is to follow
\*   "closed"    'close' was emitted
\* proc.timer: "none" | "armed" | "fired" | "cleared"; proc.killed is the
\* local variable killed; proc.hit records that proc.kill('SIGKILL') reached a
\* subprocess that was alive; proc.output and proc.errorOutput are the chunks
\* collected; proc.settled, proc.outcome are the promise returned to the
\* caller, proc.resumed counts the resumptions of the awaiting caller.
NoProc ==
    [state |-> "none", code |-> Null, timer |-> "none", killed |-> FALSE, hit |-> FALSE,
     output |-> <<>>, errorOutput |-> <<>>,
     settled |-> FALSE, outcome |-> NoResult, resumed |-> 0]

\* resolve(outcome): settles the promise if it is not settled yet, and the
\* awaiting caller resumes with outcome; a later call does nothing
resolve(p, outcome) ==
    IF p.settled THEN p
    ELSE [p EXCEPT !.settled = TRUE, !.outcome = outcome, !.resumed = @ + 1]

\* clearTimeout(timer)
clearTimeout(p) == IF p.timer = "armed" THEN [p EXCEPT !.timer = "cleared"] ELSE p

(* ---------------------------- result text ------------------------------ *)

\* extracted.applied: extractResultText(extracted.input) returned extracted.output
NoText == [input |-> <<>>, output |-> <<>>, applied |-> FALSE]

(* ---------------------------- the server ------------------------------- *)

\* startServer: the listeners are registered, nothing was read or written
Init ==
    /\ phase = "running"
    /\ lines = <<>>
    /\ task = <<>>
    /\ outputQueue = <<>>
    /\ stdout = <<>>
    /\ run = NoRun
    /\ proc = NoProc
    /\ extracted = NoText

Calls == {n \in 1..Len(task) : task[n].pc # "none"}
InFlight == {n \in Calls : task[n].pc \in {"settled", "running", "sleeping"}}
Alive == {n \in Calls : task[n].pc = "running"}

\* a continuation is queued as a microtask: it runs before any timer, child
\* process or stream event is delivered
MicrotaskPending == \E n \in Calls : task[n].pc = "settled"

\* a dispatcher that awaits each tool call before it takes the next line
Listening_Awaiting == phase = "running" /\ InFlight = {}

\* the 'line' listener is synchronous and handleToolCall is not awaited: a
\* line is taken whenever the process runs
Listening == phase = "running"

\* rl.on('line'): the next line arrives and processRequest handles it.  Lines
\* of one input chunk are emitted back to back, before queued microtasks run.
Line(l) ==
    /\ Listening
    /\ Len(lines) < MaxLines
    /\ LET n == Len(lines) + 1
           r == processRequest(outputQueue, n, l)
       IN  IF r.uncaught
           THEN /\ phase' = "crashed"
                /\ lines' = <<>>
                /\ task' = <<>>
                /\ outputQueue' = <<>>
                /\ stdout' = stdout
           ELSE /\ phase' = phase
                /\ lines' = Append(lines, l)
                /\ task' = Append(task, r.task)
                /\ outputQueue' = StartWrites(r.queue)
                /\ stdout' = stdout \o Started(r.queue, 1)
    /\ UNCHANGED <<run, proc, extracted>>

\* the continuation of handleToolCall after an await on a settled promise
Resume(n) ==
    /\ phase = "running"
    /\ n \in Calls
    /\ task[n].pc = "settled"
    /\ \A m \in 1..(n - 1) : task[m].pc # "settled"
    /\ LET q == Respond(outputQueue, n, lines[n].id, task[n])
       IN  /\ outputQueue' = StartWrites(q)
           /\ stdout' = stdout \o Started(q, 1)
    /\ task' = [task EXCEPT ![n] = Done]
    /\ UNCHANGED <<phase, lines, run, proc, extracted>>

\* what a tool call does once its retry operation returned result
Return(q, n, t, result) ==
    LET returned == [t EXCEPT !.result = result]
    IN  [queue |-> Respond(q, n, lines[n].id, returned),
         task |-> Done]

\* the subprocess of task n closes and executeClaudeCli resolves with executed:
\* the retry loop runs on to its next suspension or to the response
AfterAttempt(q, n, t, executed) ==
    IF t.tool \in PlainTools
    THEN LET step == runWithRetryStep(t.attempt, t.maxRetries, executed)
         IN  IF step.do = "return"
             THEN Return(q, n, t, step.result)
             ELSE [queue |-> q, task |-> [t EXCEPT !.pc = "sleeping", !.ms = step.ms]]
    ELSE LET step == runJsonWithRetryStep(t.attempt, t.maxRetries, t.errors, executed)
             u == [t EXCEPT !.errors = step.errors]
         IN  CASE step.do = "return" -> Return(q, n, u, step.result)
               [] step.do = "sleep" ->
                    [queue |-> q, task |-> [u EXCEPT !.pc = "sleeping", !.ms = step.ms]]
               [] OTHER ->
                    [queue |-> q, task |-> Execute(u, lines[n].prompt, t.attempt + 1)]

Close(n, executed) ==
    /\ phase = "running"
    /\ ~MicrotaskPending
    /\ n \in Alive
    /\ LET r == AfterAttempt(outputQueue, n, task[n], executed)
       IN  /\ outputQueue' = StartWrites(r.queue)
           /\ stdout' = stdout \o Started(r.queue, 1)
           /\ task' = [task EXCEPT ![n] = r.task]
    /\ UNCHANGED <<phase, lines, run, proc, extracted>>

\* the sleep timer of task n fires: the loop starts the next attempt
Wake(n) ==
    /\ phase = "running"
    /\ ~MicrotaskPending
    /\ n \in Calls
    /\ task[n].pc = "sleeping"
    /\ task' = [task EXCEPT ![n] = Execute([task[n] EXCEPT !.ms = 0],
                                           lines[n].prompt, task[n].attempt + 1)]
    /\ UNCHANGED <<phase, lines, outputQueue, stdout, run, proc, extracted>>

\* the write of link k completes: its callback resolves the link's promise,
\* and the .then callback of the next link runs
Written(k) ==
    /\ phase = "running"
    /\ ~MicrotaskPending
    /\ k \in 1..Len(outputQueue)
    /\ outputQueue[k].state = "writing"
    /\ LET q == [outputQueue EXCEPT ![k].state = "resolved"]
       IN  /\ outputQueue' = StartWrites(q)
           /\ stdout' = Append(stdout, Fragment(q, k, "tail")) \o Started(q, 1)
    /\ UNCHANGED <<phase, lines, task, run, proc, extracted>>

\* a shutdown that first writes out the responses still queued
Shutdown_Drained(event) ==
    /\ phase = "running"
    /\ ~MicrotaskPending
    /\ phase' = "exited"
    /\ lines' = <<>>
    /\ task' = IF InFlight = {} THEN <<>> ELSE <<Abandoned>>
    /\ outputQueue' = <<>>
    /\ LET queued == SelectSeq(outputQueue, LAMBDA link : link.state # "resolved")
       IN  stdout' = stdout \o [i \in 1..Len(queued) |->
                                  [seq |-> queued[i].seq, part |-> "tail",
                                   cause |-> queued[i].cause, data |-> queued[i].data]]
    /\ UNCHANGED <<run, proc, extracted>>

\* rl.on('close'), SIGINT, SIGTERM: process.exit(0).  The process and all it
\* held in memory are gone, the tool calls in flight with it; what the output
\* stream received stays.
Shutdown(event) ==
    /\ phase = "running"
    /\ ~MicrotaskPending
    /\ phase' = "exited"
    /\ lines' = <<>>
    /\ task' = IF InFlight = {} THEN <<>> ELSE <<Abandoned>>
    /\ outputQueue' = <<>>
    /\ UNCHANGED <<stdout, run, proc, extracted>>

Next ==
    \/ \E l \in InputLines(Len(lines) + 1) : Line(l)
    \/ \E n \in 1..MaxLines : Resume(n)
    \/ \E n \in 1..MaxLines, executed \in executeClaudeCli : Close(n, executed)
    \/ \E n \in 1..MaxLines : Wake(n)
    \/ \E k \in 1..MaxLines : Written(k)
    \/ \E event \in {"close", "SIGINT", "SIGTERM"} : Shutdown(event)

Spec == Init /\ [][Next]_vars

TypeOK ==
    /\ phase \in {"running", "exited", "crashed"}
    /\ phase = "running" => Len(task) = Len(lines)
    /\ Len(lines) <= MaxLines

(* ---------------------------- one retry operation ---------------------- *)

server == <<phase, lines, task, outputQueue, stdout>>

\* a caller invokes runWithRetry or runJsonWithRetry with options: the
\* operation runs up to its first await, or returns without one
Invoke(fn, options) ==
    /\ run.pc = "idle"
    /\ LET r == [NoRun EXCEPT !.fn = fn, !.options = options]
       IN  run' = IF fn = "runWithRetry"
                  THEN runWithRetry(r, 1)
                  ELSE runJsonWithRetry(r, 1)
    /\ UNCHANGED <<server, proc, extracted>>

\* the subprocess ends and executeClaudeCli resolves with executed: the loop
\* runs on to its next await or to its return
Exit(executed) ==
    /\ run.pc = "running"
    /\ LET r == [run EXCEPT !.events = Ended(run, executed)]
           maxRetries == IF run.fn = "runWithRetry"
                         THEN run.options.maxRetries
                         ELSE jsonOptions(run.options).maxRetries
           attempt == IF run.fn = "runWithRetry" THEN run.attempt ELSE run.inner
           step == runWithRetryStep(attempt, maxRetries, executed)
       IN  run' = IF step.do = "sleep"
                  THEN [r EXCEPT !.pc = "sleeping",
                                 !.events = Waiting(r.events, r, step.ms)]
                  ELSE IF run.fn = "runWithRetry"
                  THEN Returned(r, step.result)
                  ELSE afterInner(r, step.result)
    /\ UNCHANGED <<server, proc, extracted>>

\* the timer of sleep(ms) fires: the loop that slept starts its next round
Slept ==
    /\ run.pc = "sleeping"
    /\ run' = IF run.fn = "runWithRetry"
              THEN runWithRetry(run, run.attempt + 1)
              ELSE IF run.inner > 0
              THEN runInner(run, run.inner + 1)
              ELSE runJsonWithRetry(run, run.attempt + 1)
    /\ UNCHANGED <<server, proc, extracted>>

RetryNext ==
    \/ \E fn \in {"runWithRetry", "runJsonWithRetry"}, options \in Options :
          Invoke(fn, options)
    \/ \E executed \in Executions : Exit(executed)
    \/ Slept

RetrySpec == Init /\ [][RetryNext]_vars

\* every subprocess ends (executeClaudeCli kills it when its timer fires) and
\* every sleep timer fires
RetryLive ==
    /\ RetrySpec
    /\ WF_vars(\E executed \in Executions : Exit(executed))
    /\ WF_vars(Slept)

(* ---------------------------- one subprocess execution ---------------- *)

\* number of chunks a subprocess writes to each of its output streams
MaxChunks == 2

outside == <<server, run, extracted>>

\* executeClaudeCli(prompt, args, timeoutMs) is called: spawn starts the
\* subprocess or fails to, the timer is armed, the listeners are registered
Spawn(started) ==
    /\ proc.state = "none"
    /\ proc' = [proc EXCEPT !.state = IF started THEN "alive" ELSE "unstarted",
                            !.timer = "armed"]
    /\ UNCHANGED outside

\* proc.stdout.on('data') / proc.stderr.on('data'): a chunk arrives; the
\* streams deliver until they are closed, also after the subprocess ended
Data(stream, chunk) ==
    /\ proc.state \in {"alive", "exited"}
    /\ IF stream = "stdout"
       THEN /\ Len(proc.output) < MaxChunks
            /\ proc' = [proc EXCEPT !.output = Append(@, chunk)]
       ELSE /\ Len(proc.errorOutput) < MaxChunks
            /\ proc' = [proc EXCEPT !.errorOutput = Append(@, chunk)]
    /\ UNCHANGED outside

\* the subprocess ends: by itself with an exit code, or by a signal (code
\* null); after the SIGKILL of the timer reached it, by that signal
Ends(code) ==
    /\ proc.state = "alive"
    /\ proc.hit => code = Null
    /\ proc' = [proc EXCEPT !.state = "exited", !.code = code]
    /\ UNCHANGED outside

\* the timer fires: killed = true; proc.kill('SIGKILL'), which reaches the
\* subprocess only if it is still alive
Timeout ==
    /\ proc.timer = "armed"
    /\ proc.state \in {"alive", "exited"}
    /\ proc' = [proc EXCEPT !.timer = "fired", !.killed = TRUE,
                            !.hit = (proc.state = "alive")]
    /\ UNCHANGED outside

\* proc.on('error'): the subprocess could not be started
Error(message) ==
    /\ proc.state = "unstarted"
    /\ proc' = [resolve(clearTimeout(proc), OnError(message)) EXCEPT !.state = "errored"]
    /\ UNCHANGED outside

\* proc.on('close'): the subprocess has ended and its streams are closed (for
\* a subprocess that could not be started, after 'error', with a negative code)
Closed ==
    /\ proc.state \in {"exited", "errored"}
    /\ LET code == IF proc.state = "errored" THEN Num(-2) ELSE proc.code
       IN  proc' = [resolve(clearTimeout(proc),
                            OnClose(proc.killed, code, proc.output, proc.errorOutput))
                      EXCEPT !.state = "closed", !.code = code]
    /\ UNCHANGED outside

RunnerNext ==
    \/ \E started \in BOOLEAN : Spawn(started)
    \/ \E stream \in {"stdout", "stderr"} : Data(stream, "chunk")
    \/ \E code \in {Num(0), Num(2), Null} : Ends(code)
    \/ Timeout
    \/ Error("ENOENT")
    \/ Closed

RunnerSpec == Init /\ [][RunnerNext]_vars

(* ---------------------------- one extraction --------------------------- *)

\* longest output, in tokens, that extractResultText is applied to
MaxText == 6

\* the pieces an output is made of: braces, the quote, the key "result" with
\* its colon, a number, other text
Tokens == {"{", "}", "\"", "\"result\":", "1", "text"}

Outputs == UNION {[1..n -> Tokens] : n \in 0..MaxText}

\* extractResultText(jsonOutput) is called and returns
Extract(jsonOutput) ==
    /\ ~extracted.applied
    /\ extracted' = [input |-> jsonOutput, output |-> extractResultText(jsonOutput),
                     applied |-> TRUE]
    /\ UNCHANGED <<server, run, proc>>

\* one application: nothing follows its return
ExtractNext ==
    /\ ~extracted.applied
    /\ \E jsonOutput \in Outputs : Extract(jsonOutput)

ExtractSpec == Init /\ [][ExtractNext]_vars

(* ---------------------------- properties ------------------------------- *)

Links(n) == {k \in 1..Len(outputQueue) : outputQueue[k].cause = n}
Heads == SelectSeq(stdout, LAMBDA f : f.part = "head")
Tails == SelectSeq(stdout, LAMBDA f : f.part = "tail")
IsCall(l) == l.kind = "object" /\ l.method = "tools/call"
KnownMethods == {"initialize", "initialized", "tools/list", "tools/call"}

\* JSON.parse(line) returns a value from which id, method and params are read
Parsed(l) == l.kind \in {"object", "scalar"}

\* C1: the output stream carries whole response lines only: at most one write
\* is in progress, a write starts only when every earlier response has been
\* written completely, and in the stream the head of a response is followed
\* by its own tail, never by a part of another response.
C1_WholeLines ==
    /\ Cardinality({k \in 1..Len(outputQueue) : outputQueue[k].state = "writing"}) <= 1
    /\ \A k \in 1..Len(outputQueue) :
          outputQueue[k].state # "pending" =>
            \A j \in 1..(k - 1) : outputQueue[j].state = "resolved"
    /\ \A i \in 1..Len(stdout) :
          IF stdout[i].part = "head"
          THEN IF i = Len(stdout) THEN TRUE
               ELSE stdout[i + 1].part = "tail" /\ stdout[i + 1].seq = stdout[i].seq
          ELSE IF i = 1 THEN FALSE
               ELSE stdout[i - 1].part = "head" /\ stdout[i - 1].seq = stdout[i].seq

\* two tool calls have completed: the response of one is being written while
\* the response of the other waits in the queue
C1_Witness ==
    \E k, j \in 1..Len(outputQueue) :
        /\ k < j
        /\ outputQueue[k].state = "writing"
        /\ outputQueue[j].state = "pending"
        /\ IsCall(lines[outputQueue[k].cause]) /\ lines[outputQueue[k].cause].prompt # Undef
        /\ IsCall(lines[outputQueue[j].cause]) /\ lines[outputQueue[j].cause].prompt # Undef

\* the tools/call lines whose handleToolCall reaches the retry operation
Launches(l) ==
    IsCall(l) /\ l.hasParams /\ l.hasArgs /\ l.name \in VALID_TOOL_NAMES

\* the lines answered inside processRequest: initialize, tools/list, an
\* unsupported method, a tools/call naming an unknown tool
Unsupported(l) == Parsed(l) /\ l.method \notin KnownMethods
NamesUnknownTool(l) == IsCall(l) /\ l.hasParams /\ l.name \notin VALID_TOOL_NAMES
Synchronous(l) ==
    \/ Parsed(l) /\ l.method \in {"initialize", "tools/list"}
    \/ Unsupported(l)
    \/ NamesUnknownTool(l)

\* C3 (state part): while the process runs, every next input line is taken and
\* routed, whatever tool calls are in flight.
C3_LineTaken ==
    (phase = "running" /\ Len(lines) < MaxLines) =>
        \A l \in InputLines(Len(lines) + 1) : ENABLED Line(l)

\* C3 (step part): a tools/call that reaches a first attempt spawns its own
\* subprocess in the step that takes its line, beside all those alive.
C3_SpawnsBeside ==
    (phase' = "running" /\ Len(lines') = Len(lines) + 1) =>
        LET n == Len(lines')
            l == lines'[n]
        IN  (Launches(l) /\ l.prompt # Undef /\ parseToolArguments(l).maxRetries >= 1)
                => (Alive' = Alive \cup {n} /\ n \notin Alive)

\* C3: dispatch never waits for a tool call: the next line is always taken,
\* and a later tools/call starts its subprocess while the earlier ones run.
C3_NeverWaits == [](C3_LineTaken) /\ [][C3_SpawnsBeside]_vars

\* as many subprocesses are alive at once as lines were sent
C3_Witness == Cardinality(Alive) = MaxLines

\* C4 (state part): every initialize, tools/list and unsupported-method line
\* taken so far has its response in the queue; the responses of synchronous
\* lines stand in the queue, and in the stream, in the order of their lines.
C4_InLineOrder ==
    /\ \A n \in 1..Len(lines) :
          (Synchronous(lines[n]) /\ ~NamesUnknownTool(lines[n])) =>
              Cardinality(Links(n)) = 1
    /\ \A k, j \in 1..Len(outputQueue) :
          (/\ k < j
           /\ Synchronous(lines[outputQueue[k].cause])
           /\ Synchronous(lines[outputQueue[j].cause]))
              => outputQueue[k].cause < outputQueue[j].cause
    /\ phase = "running" =>
         \A a, b \in 1..Len(Heads) :
            (/\ a < b
             /\ Synchronous(lines[Heads[a].cause])
             /\ Synchronous(lines[Heads[b].cause]))
                => Heads[a].cause < Heads[b].cause

\* C4 (step part): a response to a synchronous line is enqueued in the very
\* step that takes the line, before the next line is processed.
C4_EnqueuedAtOnce ==
    \A k \in 1..Len(outputQueue') :
        (/\ \A j \in 1..Len(outputQueue) : outputQueue[j].seq # outputQueue'[k].seq
         /\ Synchronous(lines'[outputQueue'[k].cause]))
            => (Len(lines') = Len(lines) + 1 /\ outputQueue'[k].cause = Len(lines'))

\* C4: responses to initialize, tools/list, unsupported methods and unknown
\* tools are produced synchronously and keep the order of their lines.
C4_Synchronous == [](C4_InLineOrder) /\ [][C4_EnqueuedAtOnce]_vars

\* with a tool call still in flight, two later synchronous lines (one of them
\* naming an unknown tool) have both been answered in the stream
C4_Witness ==
    /\ Len(lines) >= 3
    /\ 1 \in InFlight
    /\ Synchronous(lines[2]) /\ Synchronous(lines[3])
    /\ NamesUnknownTool(lines[2]) \/ NamesUnknownTool(lines[3])
    /\ \E a, b \in 1..Len(Tails) : a < b /\ Tails[a].cause = 2 /\ Tails[b].cause = 3

\* C5: responses reach the stream in exactly the order of the atomicOutput
\* calls: the writes started and the writes completed are the first calls, in
\* call order, each once, with the data that was enqueued.
C5_Fifo ==
    /\ \A i \in 1..Len(Heads) : Heads[i].seq = i
    /\ \A i \in 1..Len(Tails) : Tails[i].seq = i
    /\ phase = "running" =>
         /\ Len(Heads) = Cardinality({k \in 1..Len(outputQueue) :
                                        outputQueue[k].state # "pending"})
         /\ Len(Tails) = Cardinality({k \in 1..Len(outputQueue) :
                                        outputQueue[k].state = "resolved"})
         /\ \A i \in 1..Len(Heads) :
               \E k \in 1..Len(outputQueue) :
                  /\ outputQueue[k].seq = i
                  /\ outputQueue[k].data = Heads[i].data
                  /\ outputQueue[k].cause = Heads[i].cause

\* two responses were written, the one of the later line first
C5_Witness ==
    /\ Len(Tails) >= 2
    /\ Tails[1].cause > Tails[2].cause

HasId(l) == l.id # Undef /\ l.id # Null

\* JSON.parse(line) does not throw (the empty text is no JSON either)
JSONparses(l) == l.kind \notin {"blank", "badjson"}

ErrorCode(k) == outputQueue[k].data.error[1]
ErrorMessage(k) == outputQueue[k].data.error[2]

\* C2: every tools/call request that carries an id gets exactly one response
\* carrying that id: once its handling is no longer in flight, one response
\* with its id stands in the queue.
C2_EveryCallAnswered ==
    \A n \in 1..Len(lines) :
        (IsCall(lines[n]) /\ HasId(lines[n]) /\ n \notin InFlight) =>
            Cardinality({k \in Links(n) : outputQueue[k].data.id = lines[n].id}) = 1

\* C6: every response has exactly one of result and error and carries the id
\* of the request that caused it; only the response to a line that failed to
\* parse carries id null.
C6_OneOfAndId ==
    \A k \in 1..Len(outputQueue) :
        LET d == outputQueue[k].data
            l == lines[outputQueue[k].cause]
        IN  /\ Cardinality(d.keys \cap {"result", "error"}) = 1
            /\ IF l.kind = "badjson"
               THEN d.id = Null
               ELSE d.id = l.id /\ d.id # Null

\* C7: every tools/call whose name is not a known tool is answered with error
\* -32601 'Unknown tool: <name>', whatever else it contains, and spawns no
\* subprocess.
C7_UnknownTool ==
    \A n \in 1..Len(lines) :
        NamesUnknownTool(lines[n]) =>
            /\ n \notin InFlight
            /\ \E k \in Links(n) :
                  /\ outputQueue[k].data.error # Undef
                  /\ ErrorCode(k) = -32601
                  /\ ErrorMessage(k) = <<"Unknown tool: ", lines[n].name>>

\* C8: every line that parses as JSON and whose method is none of initialize,
\* initialized, tools/list, tools/call is answered with one error -32601
\* whose message contains the method name; no tool call is launched for it.
C8_MethodNotFound ==
    \A n \in 1..Len(lines) :
        Unsupported(lines[n]) =>
            /\ task[n].pc = "none"
            /\ \E k \in 1..Len(outputQueue) :
                  /\ Links(n) = {k}
                  /\ outputQueue[k].data.keys \cap {"result", "error"} = {"error"}
                  /\ ErrorCode(k) = -32601
                  /\ \E i \in 1..Len(ErrorMessage(k)) : ErrorMessage(k)[i] = lines[n].method
                  /\ outputQueue[k].data.id = lines[n].id

\* an unsupported method was answered in the stream while a tool call runs
C8_Witness ==
    \E n \in 1..Len(lines) :
        /\ Unsupported(lines[n])
        /\ lines[n].method = "foo"
        /\ \E a \in 1..Len(Tails) : Tails[a].cause = n
        /\ Alive # {}

OneParseError(n) ==
    /\ task[n].pc = "none"
    /\ \E k \in 1..Len(outputQueue) :
          /\ Links(n) = {k}
          /\ outputQueue[k].data.keys = {"jsonrpc", "id", "error"}
          /\ outputQueue[k].data.id = Null
          /\ ErrorCode(k) = -32700

\* C9 as stated: every line that does not parse as JSON produces exactly one
\* parse-error response (id null, code -32700) and nothing else.
C9_EveryUnparsable ==
    \A n \in 1..Len(lines) : ~JSONparses(lines[n]) => OneParseError(n)

\* C9 amended: every line with a non-blank character that does not parse as
\* JSON produces exactly one parse-error response (id null, code -32700) and
\* nothing else; a blank line produces nothing at all.
C9_NonBlankUnparsable ==
    \A n \in 1..Len(lines) :
        /\ lines[n].kind = "badjson" => OneParseError(n)
        /\ lines[n].kind = "blank" => (Links(n) = {} /\ task[n].pc = "none")

\* a malformed line got its parse error written and a blank line was skipped
C9_Witness ==
    \E n, m \in 1..Len(lines) :
        /\ lines[n].kind = "badjson"
        /\ lines[m].kind = "blank"
        /\ \E a \in 1..Len(Tails) : Tails[a].cause = n /\ Tails[a].data.id = Null

\* C10: a request whose id is null or absent never receives a response.
C10_NotificationSilent ==
    \A k \in 1..Len(outputQueue) :
        LET l == lines[outputQueue[k].cause]
        IN  l.kind = "object" => HasId(l)

\* the tools/call lines whose handleToolCall raises an exception: params or
\* arguments are missing (the destructuring, the read of args.model), or the
\* prompt is missing and an attempt is made (prompt.substring)
Throws(l) ==
    /\ IsCall(l)
    /\ IF ~l.hasParams \/ ~l.hasArgs THEN TRUE
       ELSE /\ l.name \in VALID_TOOL_NAMES
            /\ l.prompt = Undef
            /\ parseToolArguments(l).maxRetries >= 1

\* C11: every exception raised inside a launched tool call, from its first
\* statement on, becomes an error -32603 'Internal error' response for the
\* request's id that carries the exception's message, and the dispatcher
\* keeps taking lines.
C11_ExceptionConverted ==
    /\ \A n \in 1..Len(lines) :
          (Throws(lines[n]) /\ n \notin InFlight) =>
              \E k \in Links(n) :
                  /\ outputQueue[k].data.id = lines[n].id
                  /\ outputQueue[k].data.keys \cap {"result", "error"} = {"error"}
                  /\ ErrorCode(k) = -32603
                  /\ ErrorMessage(k) = <<"Internal error">>
                  /\ outputQueue[k].data.error[3] = <<"TypeError">>
    /\ (\E n \in 1..Len(lines) : Throws(lines[n])) => Listening

\* C12: no content of an input line terminates the server: no exception of
\* the parse-and-route step reaches process level.
C12_NoLineTerminates == phase # "crashed"

\* the response the claim describes for a retry operation that completed with
\* outcome: a result whose text is the extracted result text, or an error
\* -32603 whose data is the raw output
AsClaimed(d, outcome) ==
    IF outcome.success
    THEN /\ d.keys \cap {"result", "error"} = {"result"}
         /\ d.result = <<"content", "text">> \o extractResultText(outcome.output)
    ELSE /\ d.keys \cap {"result", "error"} = {"error"}
         /\ d.error[1] = -32603
         /\ d.error[3] = outcome.output

\* the outcome with which the retry operation of task t completes when its
\* subprocess closes with executed (NoResult when it does not complete)
Completes(t, executed) ==
    LET step == IF t.tool \in PlainTools
                THEN runWithRetryStep(t.attempt, t.maxRetries, executed)
                ELSE runJsonWithRetryStep(t.attempt, t.maxRetries, t.errors, executed)
    IN  IF step.do = "return" THEN step.result ELSE NoResult

\* C13: when the retry operation of a launched tool call completes, the
\* response is the result {content:[{type:'text', text}]} with the extracted
\* result text of the outcome's output on success and error -32603 with the
\* outcome's raw output as data on failure, for JSON-class tools as for
\* generate/edit/refactor tools.
C13_ResponseOfOutcome ==
    [][\A n \in 1..Len(lines) :
          (/\ Len(lines') = Len(lines)
           /\ task[n].pc \in {"running", "settled"}
           /\ ~task[n].threw
           /\ task'[n].pc = "done") =>
              \E k \in 1..Len(outputQueue') :
                  /\ k > Len(outputQueue)
                  /\ outputQueue'[k].cause = n
                  /\ outputQueue'[k].data.id = lines[n].id
                  /\ IF task[n].pc = "settled"
                     THEN AsClaimed(outputQueue'[k].data, task[n].result)
                     ELSE \E executed \in executeClaudeCli :
                            /\ Completes(task[n], executed) # NoResult
                            /\ AsClaimed(outputQueue'[k].data, Completes(task[n], executed))
    ]_vars

(* ---------------------------- properties of the retry operations ------- *)

Plain == run.fn = "runWithRetry"
Json == run.fn = "runJsonWithRetry"
Exits == {i \in 1..Len(run.events) : run.events[i].type = "exit"}
Spawns == {i \in 1..Len(run.events) : run.events[i].type = "spawn"}
Waits == {i \in 1..Len(run.events) : run.events[i].type = "wait"}
IsTimeout(outcome) == ~outcome.success /\ outcome.exitCode \in {124, 137}
IsFailure(outcome) == ~outcome.success /\ outcome.exitCode \notin {124, 137}

\* event i is the last thing the operation did and it returned outcome
ReturnedAt(i, outcome) ==
    /\ i = Len(run.events)
    /\ run.pc = "returned"
    /\ run.result = outcome

\* after event i exactly one wait of ms happens and then the next attempt
\* starts: the wait has begun, and what follows it is the spawn of attempt + 1
OneWaitThenNext(i, ms) ==
    /\ Len(run.events) >= i + 1
    /\ run.events[i + 1].type = "wait" /\ run.events[i + 1].ms = ms
    /\ IF Len(run.events) = i + 1
       THEN run.pc = "sleeping"
       ELSE /\ run.events[i + 2].type = "spawn"
            /\ run.events[i + 2].attempt = run.events[i].attempt + 1

\* C14: plain retry: after every attempt that ends with exit code 124 or 137
\* and is not the last one, exactly one 5000 ms wait happens before the next
\* attempt, and the outcome of a successful attempt is the final outcome.
C14_TimeoutBackoff ==
    Plain =>
        \A i \in Exits :
            /\ (IsTimeout(run.events[i].outcome)
                  /\ run.events[i].attempt < run.options.maxRetries) =>
                   OneWaitThenNext(i, 5000)
            /\ run.events[i].outcome.success => ReturnedAt(i, run.events[i].outcome)

\* maxRetries = 3, timeouts (124, 137) on attempts 1 and 2, success on
\* attempt 3: success after two 5000 ms waits
C14_Witness ==
    /\ Plain /\ run.options.maxRetries = 3
    /\ Len(run.events) = 8
    /\ run.events[2].outcome.exitCode = 124 /\ run.events[3].ms = 5000
    /\ run.events[5].outcome.exitCode = 137 /\ run.events[6].ms = 5000
    /\ run.events[8].outcome.success
    /\ run.pc = "returned" /\ run.result = run.events[8].outcome

\* C15: plain retry: after every attempt that fails with an exit code other
\* than 124 and 137, one 2000 ms wait happens before the next attempt if one
\* remains; after the last attempt no wait happens and the operation returns
\* exactly that attempt's outcome; so when every attempt fails so, maxRetries
\* attempts ran with one 2000 ms wait between consecutive ones.
C15_FailureBackoff ==
    Plain =>
        /\ \A i \in Exits :
              IsFailure(run.events[i].outcome) =>
                  IF run.events[i].attempt < run.options.maxRetries
                  THEN OneWaitThenNext(i, 2000)
                  ELSE /\ ReturnedAt(i, run.events[i].outcome)
                       /\ run.result # MaxRetriesReached(run.options.maxRetries)
        /\ (/\ run.pc = "returned"
            /\ Exits # {}
            /\ \A i \in Exits : IsFailure(run.events[i].outcome)) =>
               /\ Cardinality(Exits) = run.options.maxRetries
               /\ Cardinality(Waits) = run.options.maxRetries - 1
               /\ \A i \in Waits : run.events[i].ms = 2000

\* three failing attempts with different outputs: the third one's is returned
C15_Witness ==
    /\ Plain /\ run.options.maxRetries = 3
    /\ run.pc = "returned"
    /\ Cardinality(Exits) = 3
    /\ \A i \in Exits : IsFailure(run.events[i].outcome)
    /\ run.events[2].outcome # run.events[8].outcome
    /\ run.result = run.events[8].outcome

\* C16: plain retry: when the last attempt ends with exit code 124 or 137 the
\* operation returns the synthesized failure 'Max retries reached after N
\* attempts' (exit code 1, N = maxRetries) and not that attempt's outcome; in
\* no other case where an attempt ran is the synthesized failure returned.
C16_Synthesized ==
    Plain =>
        /\ \A i \in Exits :
              (IsTimeout(run.events[i].outcome)
                 /\ run.events[i].attempt >= run.options.maxRetries) =>
                  /\ ReturnedAt(i, MaxRetriesReached(run.options.maxRetries))
                  /\ run.result # run.events[i].outcome
        /\ (/\ run.pc = "returned"
            /\ Spawns # {}
            /\ run.result = MaxRetriesReached(run.options.maxRetries)) =>
               /\ run.events[Len(run.events)].type = "exit"
               /\ IsTimeout(run.events[Len(run.events)].outcome)
               /\ run.events[Len(run.events)].attempt = run.options.maxRetries

\* a failure, then a timeout on the last of two attempts
C16_Witness ==
    /\ Plain /\ run.options.maxRetries = 2
    /\ run.pc = "returned"
    /\ Len(run.events) = 5
    /\ IsFailure(run.events[2].outcome)
    /\ IsTimeout(run.events[5].outcome)
    /\ run.result.output = <<"Max retries reached after ", "2", " attempts">>

\* C17 (state part): plain retry runs at most maxRetries attempts, numbered
\* 1, 2, ... in order, one subprocess at a time; the first successful
\* attempt's outcome is returned at once, nothing happens after it.
C17_Attempts ==
    Plain =>
        /\ Cardinality(Spawns) <= run.options.maxRetries
        /\ \A i \in Spawns :
              /\ run.events[i].attempt = Cardinality({j \in Spawns : j <= i})
              /\ IF i = Len(run.events) THEN run.pc = "running"
                 ELSE run.events[i + 1].type = "exit"
        /\ \A i \in Exits :
              /\ run.events[i - 1].type = "spawn"
              /\ run.events[i].outcome.success =>
                    /\ ReturnedAt(i, run.events[i].outcome)
                    /\ \A j \in Exits : j < i => ~run.events[j].outcome.success

\* C17: plain retry always terminates, after at most maxRetries attempts
\* numbered in order, returning the first successful attempt's outcome at once.
C17_Terminates ==
    /\ [](C17_Attempts)
    /\ (Plain ~> (run.pc = "returned"))

\* a success on the second of three attempts was returned
C17_Witness ==
    /\ Plain /\ run.options.maxRetries = 3
    /\ run.pc = "returned"
    /\ Cardinality(Spawns) = 2
    /\ run.result.success

\* the error recorded for attempt starts with its tag and kind
Recorded(attempt, kind) ==
    \E e \in 1..Len(run.errors) :
        /\ Len(run.errors[e]) >= 4
        /\ SubSeq(run.errors[e], 1, 4) = <<"[", ToString(attempt), "] ", kind>>

\* C18: JSON-validating retry: when the inner call of an attempt fails and
\* more attempts remain, an attempt-tagged error is recorded and a 2000 ms
\* wait happens before the next attempt starts.
C18_InnerFailureWait ==
    Json =>
        \A i \in Exits :
            (~run.events[i].outcome.success
               /\ run.events[i].attempt < run.options.maxRetries) =>
                /\ Recorded(run.events[i].attempt, "AI execution failed: ")
                /\ OneWaitThenNext(i, 2000)

\* C19 (state part): every subprocess execution of the JSON-validating retry
\* is the only one of its attempt (the inner loop is at its round 1) and is
\* given the output format json; at most maxRetries executions are run.
C19_ForcedOptions ==
    Json =>
        /\ Cardinality(Spawns) <= run.options.maxRetries
        /\ \A i \in Spawns :
              /\ run.events[i].args = <<"--output-format", "json">>
              /\ run.events[i].inner = 1
              /\ run.events[i].attempt = Cardinality({j \in Spawns : j <= i})

\* C19 (step part): the options the caller passed stay as they were
C19_OptionsKept == run.pc # "idle" => run'.options = run.options

\* C19: each attempt of the JSON-validating retry runs exactly one subprocess
\* execution, with the output format forced to json whatever the caller's
\* options say, at most maxRetries executions in all, and the caller's
\* options stay unchanged.
C19_OneExecution == [](C19_ForcedOptions) /\ [][C19_OptionsKept]_vars

\* a caller asking for text and 3 retries got three executions, each in json
C19_Witness ==
    /\ Json
    /\ run.options = [maxRetries |-> 3, outputFormat |-> "text"]
    /\ Cardinality(Spawns) = 3
    /\ run.pc = "returned"
    /\ \E i \in Exits : IsTimeout(run.events[i].outcome)

\* the part of text from its first '{' to its last '}' if that part parses as
\* JSON, Null if there is none
JsonObjectIn(text) ==
    LET opening == {i \in 1..Len(text) : text[i] = "{"}
        closing == {i \in 1..Len(text) : text[i] = "}"}
    IN  IF opening = {} \/ closing = {} THEN Null
        ELSE LET f == CHOOSE i \in opening : \A j \in opening : i <= j
                 l == CHOOSE i \in closing : \A j \in closing : j <= i
             IN  IF f < l /\ IsJson(SubSeq(text, f, l)) THEN SubSeq(text, f, l) ELSE Null

\* the JSON object found in the extracted result text or, failing that, in
\* the raw output
FoundJson(output) ==
    IF JsonObjectIn(extractResultText(output)) # Null
    THEN JsonObjectIn(extractResultText(output))
    ELSE JsonObjectIn(output)

\* C20: JSON-validating retry: an attempt whose inner call succeeds and whose
\* extracted result text or, failing that, raw output contains a parseable
\* JSON object (first '{' to last '}') makes the operation return
\* {success: true, output: that object, exitCode: 0} at once; an attempt whose
\* inner call succeeds without one is recorded as 'JSON parsing failed' and
\* the loop goes on.
C20_JsonReturned ==
    Json =>
        \A i \in Exits :
            run.events[i].outcome.success =>
                IF FoundJson(run.events[i].outcome.output) # Null
                THEN ReturnedAt(i, Result(TRUE, FoundJson(run.events[i].outcome.output), 0))
                ELSE /\ Recorded(run.events[i].attempt, "JSON parsing failed")
                     /\ IF run.events[i].attempt < run.options.maxRetries
                        THEN OneWaitThenNext(i, 2000)
                        ELSE /\ i = Len(run.events)
                             /\ run.pc = "returned"
                             /\ ~run.result.success

\* after an attempt without JSON and one with unparsable braces, the third
\* attempt's result text held the object that was returned
C20_Witness ==
    /\ Json
    /\ run.pc = "returned"
    /\ Len(run.events) = 8
    /\ run.events[2].outcome = Result(TRUE, <<"text">>, 0)
    /\ run.events[5].outcome = Result(TRUE, <<"{", "text", "}">>, 0)
    /\ run.events[8].outcome.output =
          <<"{", "\"result\":", "\"", "x", "{", "}", "y", "\"", "}">>
    /\ run.result = Result(TRUE, <<"{", "}">>, 0)

(* ---------------------------- properties of the subprocess runner ------ *)

TimeoutOutcome == Result(FALSE, <<"Command timeout">>, 124)

\* C21: the timeout outcome {success: false, output: 'Command timeout',
\* exitCode: 124} is produced only for a subprocess that had not exited when
\* the timer fired and was forcibly terminated; a subprocess that exited with
\* code 0 yields the success outcome with its stdout, also when the timer
\* fires after the exit and before the streams are closed.
C21_TimeoutOnlyIfKilled ==
    proc.settled =>
        /\ proc.outcome = TimeoutOutcome => proc.hit
        /\ (proc.state = "closed" /\ proc.code = Num(0)) =>
               proc.outcome = Result(TRUE, proc.output, 0)

\* C22 (state part): the caller has resumed at most once, with the outcome
\* the promise holds; once 'close' was emitted it has resumed; and once the
\* subprocess has terminated after the kill of the timer it has resumed.
C22_Resumed ==
    /\ proc.resumed = IF proc.settled THEN 1 ELSE 0
    /\ proc.state = "closed" => proc.settled
    /\ (proc.hit /\ proc.state \in {"exited", "closed"}) => proc.resumed = 1

\* C22 (step part): the outcome the caller resumed with stays the outcome,
\* whatever event comes later
C22_OneOutcome == proc.settled => (proc'.settled /\ proc'.outcome = proc.outcome)

\* C22: for every invocation of the runner the caller resumes exactly once
\* with exactly one outcome under every ordering of the timer, close and
\* error events, and it resumes no later than the termination of the
\* subprocess after the timeout kill.
C22_ResumesOnce == [](C22_Resumed) /\ [][C22_OneOutcome]_vars

\* the subprocess could not be started
Unstarted == proc.state = "errored" \/ (proc.state = "closed" /\ proc.code = Num(-2))

\* C23: when the timer did not kill the subprocess, exit code 0 gives
\* {success: true, output: stdout, exitCode: 0}; exit code N # 0 gives
\* {success: false, exitCode: N} with output stderr if non-empty, else stdout
\* if non-empty, else 'Exit code: N'; a subprocess that could not be started
\* gives {success: false, output: 'Spawn error: <message>', exitCode: 1}.
C23_Outcomes ==
    /\ Unstarted => proc.outcome = Result(FALSE, <<"Spawn error: ", "ENOENT">>, 1)
    /\ (proc.state = "closed" /\ ~proc.hit /\ proc.code # Null /\ ~Unstarted) =>
          IF proc.code = Num(0)
          THEN proc.outcome = Result(TRUE, proc.output, 0)
          ELSE proc.outcome =
                  Result(FALSE,
                         IF proc.errorOutput # <<>> THEN proc.errorOutput
                         ELSE IF proc.output # <<>> THEN proc.output
                         ELSE <<"Exit code: ", ToString(proc.code[2])>>,
                         proc.code[2])

(* ---------------------------- properties of the extraction ------------- *)

\* s parses as JSON to an object whose result field is a string
HasStringResult(s) ==
    /\ IsJson(s)
    /\ Len(s) >= 5
    /\ s[1] = "{" /\ s[2] = "\"result\":"
    /\ IsJsonString(SubSeq(s, 3, Len(s) - 1))

\* that string, without its quotes
StringResult(s) == SubSeq(s, 4, Len(s) - 2)

\* C24: result-field extraction never raises, and for every input string: if
\* it parses as JSON and has a string-typed result field, of any value, the
\* empty string included, the result is that string; in every other case the
\* result is the input unchanged.
C24_ResultField ==
    extracted.applied =>
        extracted.output = IF HasStringResult(extracted.input)
                           THEN StringResult(extracted.input)
                           ELSE extracted.input

(* ---------------------------- properties of calls and shutdown --------- *)

\* C25 (step part): a retry attempt of a tool call is spawned only in the
\* step in which its backoff wait elapses, the previous attempt's outcome
\* having been produced before that wait began.
C25_AfterBackoff ==
    \A n \in 1..Len(task) :
        (/\ n <= Len(task')
         /\ task'[n].pc = "running"
         /\ task[n].attempt >= 1
         /\ task'[n].attempt = task[n].attempt + 1) =>
            task[n].pc = "sleeping"

\* C25: for each tool call in flight at most one subprocess is alive at any
\* time: a retry attempt is spawned only after the previous attempt's outcome
\* was produced and its backoff wait elapsed, so the live subprocesses are
\* never more than the tool calls in flight.
C25_OneSubprocess ==
    /\ [](Alive \subseteq InFlight /\ Cardinality(Alive) <= Cardinality(InFlight))
    /\ [][C25_AfterBackoff]_vars

\* C26 (state part): while the process runs a shutdown event is handled as
\* soon as it arrives, whatever is in flight or queued; after the exit
\* nothing is queued, nothing is in flight and nothing more happens.
C26_Immediate ==
    /\ (phase = "running" /\ ~MicrotaskPending) => ENABLED Shutdown("SIGTERM")
    /\ phase = "exited" => (outputQueue = <<>> /\ InFlight = {} /\ ~ENABLED Next)

\* C26 (step part): the step that exits writes nothing, and of a tool call in
\* flight at that moment the output stream holds no response
C26_NothingWritten ==
    phase' = "exited" =>
        /\ stdout' = stdout
        /\ \A n \in InFlight : \A i \in 1..Len(stdout') : stdout'[i].cause # n

\* C26: shutdown is immediate and undrained: when the input closes or a
\* signal arrives the server exits at once; a tools/call in flight at that
\* moment never gets its response, and no response is written after the
\* shutdown event.
C26_Undrained == [](C26_Immediate) /\ [][C26_NothingWritten]_vars

\* the process exited with tool calls in flight and with a response of which
\* the output stream had received only a part
C26_Witness ==
    /\ phase = "exited"
    /\ task = <<Abandoned>>
    /\ Len(Heads) > Len(Tails)

====
